---------------------------- MODULE Spec2Model ----------------------------
(***************************************************************************)
(* A model of py-svg-chart (src/pysvgchart/pysvgchart.py): the axis limit  *)
(* calculation (get_limits and its numeric and date algorithms), the axis  *)
(* constructors, the chart composition and its serialisation.              *)
(*                                                                         *)
(* Numbers are Python's: an int is [t |-> "int", v], a float is an         *)
(* IEEE-754 double [t |-> "float", s, m, e].  Arithmetic is the            *)
(* interpreter's: int op int is an int, anything with a float is a float   *)
(* rounded to the nearest double, / is true division, and math.log10 is    *)
(* the C library's.  PyInt(n) and PyFloat(s, digits, p) write a value.     *)
(* Ints are below 2^31 in magnitude (start and end of the tick range are   *)
(* of any size), floats are normal doubles or zero, and math.log10 is      *)
(* tabulated for arguments from 1e-41 up to 1e12.                          *)
(* Dates are [t |-> "date", year, month, day]; datetimes carry an hour.    *)
(***************************************************************************)
EXTENDS Integers, Sequences, FiniteSets, TLC

VARIABLES
    values,     \* get_limits on its own: the value collection
    max_ticks,  \* get_limits on its own: the tick budget
    result,     \* get_limits on its own: what the call returned or raised
    pc,         \* where SimpleLineChart.__init__ stands
    args,       \* the arguments SimpleLineChart was called with
    chart,      \* the chart object (self), under construction until pc = "ready"
    err,        \* the exception the constructor raised, or "none"
    out,        \* the text the last call returned if it was render(), else NoText
    calls       \* how many calls have changed the chart since construction

limVars == <<values, max_ticks, result>>
chartVars == <<pc, args, chart, err, out, calls>>
vars == <<values, max_ticks, result, pc, args, chart, err, out, calls>>

(***************************************************************************)
(* Bounds of the model.                                                    *)
(***************************************************************************)
\* max_ticks is drawn from 1..MaxTicks
MaxTicks == 4

(***************************************************************************)
(* Natural numbers of any size: little-endian sequences of limbs in base   *)
(* 2^15 without leading zero limbs (zero is the empty sequence).  They     *)
(* carry the 53-bit significands of Python's floats and the exact          *)
(* intermediate results that IEEE-754 arithmetic rounds.                   *)
(***************************************************************************)
Base == 32768
LimbBits == 15

Abs(n) == IF n < 0 THEN -n ELSE n
Sign(n) == IF n < 0 THEN -1 ELSE 1
Min2(a, b) == IF a < b THEN a ELSE b

RECURSIVE Pow2(_)
Pow2(k) == IF k = 0 THEN 1 ELSE 2 * Pow2(k - 1)

RECURSIVE BNorm(_)
BNorm(a) == IF a # <<>> /\ a[Len(a)] = 0 THEN BNorm(SubSeq(a, 1, Len(a) - 1)) ELSE a

RECURSIVE BFromInt(_)
BFromInt(n) == IF n = 0 THEN <<>> ELSE <<n % Base>> \o BFromInt(n \div Base)

RECURSIVE BToInt(_)
BToInt(a) == IF a = <<>> THEN 0 ELSE a[1] + Base * BToInt(Tail(a))

Limb(a, i) == IF i <= Len(a) THEN a[i] ELSE 0

RECURSIVE BCmpFrom(_, _, _)
BCmpFrom(a, b, i) ==
    IF i = 0 THEN 0
    ELSE IF a[i] < b[i] THEN -1
    ELSE IF a[i] > b[i] THEN 1
    ELSE BCmpFrom(a, b, i - 1)

\* -1, 0 or 1 as a < b, a = b or a > b
BCmp(a, b) ==
    IF Len(a) < Len(b) THEN -1
    ELSE IF Len(a) > Len(b) THEN 1
    ELSE BCmpFrom(a, b, Len(a))

RECURSIVE BAddFrom(_, _, _, _)
BAddFrom(a, b, i, carry) ==
    IF i > Len(a) /\ i > Len(b)
    THEN IF carry = 0 THEN <<>> ELSE <<carry>>
    ELSE LET s == Limb(a, i) + Limb(b, i) + carry
         IN  <<s % Base>> \o BAddFrom(a, b, i + 1, s \div Base)

BAdd(a, b) == BAddFrom(a, b, 1, 0)

RECURSIVE BSubFrom(_, _, _, _)
BSubFrom(a, b, i, borrow) ==
    IF i > Len(a) THEN <<>>
    ELSE LET d == a[i] - Limb(b, i) - borrow
         IN  <<d % Base>> \o BSubFrom(a, b, i + 1, IF d < 0 THEN 1 ELSE 0)

\* a - b for a >= b
BSub(a, b) == BNorm(BSubFrom(a, b, 1, 0))

RECURSIVE BMulSmallFrom(_, _, _, _)
BMulSmallFrom(a, k, i, carry) ==
    IF i > Len(a)
    THEN IF carry = 0 THEN <<>> ELSE <<carry>>
    ELSE LET p == a[i] * k + carry
         IN  <<p % Base>> \o BMulSmallFrom(a, k, i + 1, p \div Base)

\* a * k for 0 <= k < Base
BMulSmall(a, k) == IF k = 0 \/ a = <<>> THEN <<>> ELSE BMulSmallFrom(a, k, 1, 0)

\* low + Base * rest
BAddShifted(low, rest) == IF rest = <<>> THEN low ELSE BAdd(low, <<0>> \o rest)

RECURSIVE BMulFrom(_, _, _)
BMulFrom(a, b, i) ==
    IF i > Len(b) THEN <<>> ELSE BAddShifted(BMulSmall(a, b[i]), BMulFrom(a, b, i + 1))

BMul(a, b) == BNorm(BMulFrom(a, b, 1))

\* one step of short division: the limbs above gave hi, limb comes next
BDivSmallStep(limb, k, hi) ==
    IF hi.r = 0 /\ limb = 0 THEN [q |-> <<0>> \o hi.q, r |-> 0]
    ELSE LET cur == hi.r * Base + limb
         IN  [q |-> <<cur \div k>> \o hi.q, r |-> cur % k]

\* quotient and remainder of the limbs i.. of a by k, 0 < k < Base
RECURSIVE BDivSmallFrom(_, _, _)
BDivSmallFrom(a, k, i) ==
    IF i > Len(a) THEN [q |-> <<>>, r |-> 0]
    ELSE BDivSmallStep(a[i], k, BDivSmallFrom(a, k, i + 1))

\* a quotient without its leading zero limbs
BTrimmed(d) == [q |-> BNorm(d.q), r |-> d.r]

BDivSmall(a, k) == BTrimmed(BDivSmallFrom(a, k, 1))

RECURSIVE BitLen(_)
BitLen(n) == IF n = 0 THEN 0 ELSE 1 + BitLen(n \div 2)

BBitLen(a) == IF a = <<>> THEN 0 ELSE LimbBits * (Len(a) - 1) + BitLen(a[Len(a)])

\* a * 2^k
BShl(a, k) ==
    IF a = <<>> THEN <<>>
    ELSE BMulSmallFrom([i \in 1..(k \div LimbBits) |-> 0] \o a, Pow2(k % LimbBits), 1, 0)

\* a quotient by a limb, inexact where bits were lost before or a remainder
\* is left; a quotient by a natural of any size
BShortQuotient(d, lost) == [q |-> d.q, inexact |-> lost \/ d.r # 0]
BLongQuotient(d) == [q |-> d.q, inexact |-> d.r # <<>>]

\* floor(a / 2^k), and whether bits were lost
BShr(a, k) ==
    BShortQuotient(BDivSmall(SubSeq(a, Min2(k \div LimbBits, Len(a)) + 1, Len(a)), Pow2(k % LimbBits)),
                   \E i \in 1..Min2(k \div LimbBits, Len(a)) : a[i] # 0)

BIsOdd(a) == a # <<>> /\ a[1] % 2 = 1

\* the largest q <= qhat with d * q <= cur
RECURSIVE BFit(_, _, _)
BFit(d, cur, qhat) == IF BCmp(BMulSmall(d, qhat), cur) > 0 THEN BFit(d, cur, qhat - 1) ELSE qhat

\* the quotient limb of cur by d, estimated from the two top limbs of cur
\* and corrected downward
BQuotientLimb(d, cur) ==
    BFit(d, cur, Min2(Base - 1, (Limb(cur, Len(d) + 1) * Base + Limb(cur, Len(d))) \div d[Len(d)]))

BDivModTake(d, q, cur, qi) == [q |-> <<qi>> \o q, r |-> BSub(cur, BMulSmall(d, qi))]

BDivModCur(d, q, cur) == BDivModTake(d, q, cur, BQuotientLimb(d, cur))

\* one step of long division by d, d with its top bit set: the limbs above
\* gave hi, limb comes next
BDivModStep(limb, d, hi) ==
    IF hi.r = <<>> /\ limb = 0 THEN [q |-> <<0>> \o hi.q, r |-> <<>>]
    ELSE BDivModCur(d, hi.q, BNorm(<<limb>> \o hi.r))

RECURSIVE BDivModFrom(_, _, _)
BDivModFrom(n, d, i) ==
    IF i > Len(n) THEN [q |-> <<>>, r |-> <<>>]
    ELSE BDivModStep(n[i], d, BDivModFrom(n, d, i + 1))

\* the result of dividing with both sides shifted left by s bits
BUnshifted(dm, s) == [q |-> BNorm(dm.q), r |-> BDivSmall(dm.r, Pow2(s)).q]

BDivModShifted(n, d, s) == BUnshifted(BDivModFrom(BShl(n, s), BShl(d, s), 1), s)

\* quotient and remainder of n by d > 0
BDivMod(n, d) ==
    IF BCmp(n, d) < 0 THEN [q |-> <<>>, r |-> n]
    ELSE BDivModShifted(n, d, LimbBits - BitLen(d[Len(d)]))

BSquare(a) == BMul(a, a)

\* 10^k
RECURSIVE BPow10(_)
BPow10(k) ==
    IF k = 0 THEN <<1>>
    ELSE IF k % 2 = 1 THEN BMulSmall(BPow10(k - 1), 10)
    ELSE BSquare(BPow10(k \div 2))

(***************************************************************************)
(* Python numbers.  An int is [t |-> "int", v]; a float is an IEEE-754     *)
(* double [t |-> "float", s, m, e] of value s * m * 2^e with sign s, a     *)
(* 53-bit significand 2^52 <= m < 2^53 (m = <<>> and e = 0 for zero).      *)
(* Every float operation is the exact result rounded to the nearest        *)
(* double, ties to even.                                                   *)
(***************************************************************************)
PyInt(n) == [t |-> "int", v |-> n]
Float(s, m, e) == [t |-> "float", s |-> s, m |-> m, e |-> e]
FZero(s) == Float(s, <<>>, 0)

\* a significand of 53 or 54 bits as one of 53
Renormed(s, m, e) ==
    IF BBitLen(m) > 53 THEN Float(s, BDivSmall(m, 2).q, e + 1) ELSE Float(s, m, e)

\* a.q holds 54 bits, the last of them the half bit: round to nearest, ties
\* to even
RoundHalf(s, a, e, sticky) ==
    Renormed(s,
             BDivSmall(IF a.q[1] % 2 = 1 /\ (a.inexact \/ sticky \/ a.q[1] % 4 = 3)
                       THEN BAdd(a.q, <<1>>) ELSE a.q, 2).q,
             e)

RoundBits(s, n, e, sticky, bits) ==
    IF bits = 0 THEN FZero(s)
    ELSE IF bits <= 53 THEN Float(s, BShl(n, 53 - bits), e - (53 - bits))
    ELSE RoundHalf(s, BShr(n, bits - 54), e + (bits - 53), sticky)

\* n * 2^e (and a little more when sticky, n then having 55 bits or more)
\* rounded to the nearest double
RoundBig(s, n, e, sticky) == RoundBits(s, n, e, sticky, BBitLen(n))

\* how many of the low limbs of d > 0 are zero
RECURSIVE ZeroLimbs(_, _)
ZeroLimbs(d, i) == IF d[i + 1] = 0 THEN ZeroLimbs(d, i + 1) ELSE i

\* floor(n * 2^shift / d) and whether it is inexact; a divisor of one limb
\* above its z zero limbs is divided by in one pass
BQuotient(n, d, shift, z) ==
    IF Len(d) = z + 1 /\ shift >= LimbBits * z
    THEN BShortQuotient(BDivSmall(BShl(n, shift - LimbBits * z), d[z + 1]), FALSE)
    ELSE BLongQuotient(BDivMod(IF shift >= 0 THEN BShl(n, shift) ELSE n,
                               IF shift >= 0 THEN d ELSE BShl(d, -shift)))

RoundQuotient(s, e, quotient) == RoundBig(s, quotient.q, e, quotient.inexact)

RoundShifted(s, n, d, e, shift) ==
    RoundQuotient(s, e - shift, BQuotient(n, d, shift, ZeroLimbs(d, 0)))

\* (n / d) * 2^e rounded to the nearest double, for d > 0: the quotient is
\* taken to 55 bits or more and the remainder kept as a sticky bit
RoundRatio(s, n, d, e) ==
    IF n = <<>> THEN FZero(s)
    ELSE RoundShifted(s, n, d, e, 55 - (BBitLen(n) - BBitLen(d)))

\* float(n) of an int of fewer than 54 bits: exact
IntToFloat(n) ==
    IF n = 0 THEN FZero(1)
    ELSE Float(Sign(n), BShl(BFromInt(Abs(n)), 53 - BitLen(Abs(n))), BitLen(Abs(n)) - 53)

\* the float nearest to s * n * 10^p, n a natural number of any size:
\* what float() makes of a decimal literal
FloatOfDecimal(s, n, p) ==
    RoundRatio(s, IF p >= 0 THEN BMul(n, BPow10(p)) ELSE n, BPow10(IF p >= 0 THEN 0 ELSE -p), 0)

AsFloat(a) == IF a.t = "int" THEN IntToFloat(a.v) ELSE a

FIsZero(a) == a.m = <<>>

FMul(a, b) == RoundBig(a.s * b.s, BMul(a.m, b.m), a.e + b.e, FALSE)

\* an exception raised where a value was to be computed
Exc(e) == [t |-> "exception", err |-> e]
IsExc(v) == v.t = "exception"

\* a / b: a zero divisor raises ZeroDivisionError
FDiv(a, b) ==
    IF FIsZero(b) THEN Exc("ZeroDivisionError")
    ELSE RoundRatio(a.s * b.s, a.m, b.m, a.e - b.e)

\* sign and magnitude of sa * x + sb * y, for x # y where the signs differ
BSignedSum(sa, x, sb, y) ==
    IF sa = sb THEN [s |-> sa, n |-> BAdd(x, y)]
    ELSE IF BCmp(x, y) > 0 THEN [s |-> sa, n |-> BSub(x, y)]
    ELSE [s |-> sb, n |-> BSub(y, x)]

RoundSum(sum, e) == RoundBig(sum.s, sum.n, e, FALSE)

FAddAligned(a, b, e) ==
    IF a.s # b.s /\ a.m = b.m /\ a.e = b.e THEN FZero(1)
    ELSE RoundSum(BSignedSum(a.s, BShl(a.m, a.e - e), b.s, BShl(b.m, b.e - e)), e)

FAdd(a, b) ==
    IF FIsZero(a) THEN (IF FIsZero(b) /\ a.s # b.s THEN FZero(1) ELSE b)
    ELSE IF FIsZero(b) THEN a
    ELSE FAddAligned(a, b, Min2(a.e, b.e))

FNeg(a) == [a EXCEPT !.s = -a.s]
FSub(a, b) == FAdd(a, FNeg(b))

\* |a| < |b| for floats other than zero
FSmaller(a, b) == a.e < b.e \/ (a.e = b.e /\ BCmp(a.m, b.m) < 0)

\* a < b for floats
FLess(a, b) ==
    IF FIsZero(a) THEN ~FIsZero(b) /\ b.s = 1
    ELSE IF FIsZero(b) THEN a.s = -1
    ELSE IF a.s # b.s THEN a.s = -1
    ELSE IF a.s = 1 THEN FSmaller(a, b)
    ELSE FSmaller(b, a)

FEq(a, b) == (FIsZero(a) /\ FIsZero(b)) \/ a = b

\* an int of any size: sign s and magnitude n; zero has s = 1
Big(s, n) == IF n = <<>> THEN [s |-> 1, n |-> n] ELSE [s |-> s, n |-> n]

BigToInt(y) == y.s * BToInt(y.n)

\* a + k for an int a of any size and a small k >= 0
BigPlus(a, k) == BSignedSum(a.s, a.n, 1, BFromInt(k))

\* a - b as a small int
BigDifference(a, b) == BigToInt(BSignedSum(a.s, a.n, -b.s, b.n))

\* float(y)
BigToFloat(y) == IF y.n = <<>> THEN FZero(1) ELSE RoundBig(y.s, y.n, 0, FALSE)

\* the magnitude of floor(s * m * 2^e) for e < 0: that of the quotient,
\* one more where the value is negative and bits were lost
FloorShifted(s, d) == IF s = 1 \/ ~d.inexact THEN d.q ELSE BAdd(d.q, <<1>>)

\* math.floor(a) of a float, an int
FFloor(a) ==
    IF a.e >= 0 THEN Big(a.s, BShl(a.m, a.e))
    ELSE Big(a.s, FloorShifted(a.s, BShr(a.m, -a.e)))

\* the magnitude of ceil(s * m * 2^e) for e < 0
CeilShifted(s, d) == IF s = -1 \/ ~d.inexact THEN d.q ELSE BAdd(d.q, <<1>>)

\* math.ceil(a) of a float, an int
FCeil(a) ==
    IF a.e >= 0 THEN Big(a.s, BShl(a.m, a.e))
    ELSE Big(a.s, CeilShifted(a.s, BShr(a.m, -a.e)))

\* the natural number a sequence of decimal digits writes: <<4, 9, 9>> is 499
\* acc * 10 + digit
BFromDigitsStep(acc, digit) ==
    IF acc = <<>> THEN BFromInt(digit) ELSE BAdd(BMulSmall(acc, 10), <<digit>>)

RECURSIVE BFromDigitsUpTo(_, _)
BFromDigitsUpTo(digits, i) ==
    IF i = 0 THEN <<>> ELSE BFromDigitsStep(BFromDigitsUpTo(digits, i - 1), digits[i])

BFromDigits(digits) == BFromDigitsUpTo(digits, Len(digits))

\* the float literal with these digits times 10^p: PyFloat(1, <<9, 5>>, -2) is 0.95
PyFloat(s, digits, p) == FloatOfDecimal(s, BFromDigits(digits), p)

BothInt(a, b) == a.t = "int" /\ b.t = "int"

\* a + b, a - b, a * b and a / b of Python numbers: int arithmetic on two
\* ints, float arithmetic otherwise; / is true division and always a float
\* (of two ints the nearest to their ratio, which for ints that floats hold
\* exactly is the quotient of the two floats)
PyAdd(a, b) == IF BothInt(a, b) THEN PyInt(a.v + b.v) ELSE FAdd(AsFloat(a), AsFloat(b))
PySub(a, b) == IF BothInt(a, b) THEN PyInt(a.v - b.v) ELSE FSub(AsFloat(a), AsFloat(b))
PyMul(a, b) == IF BothInt(a, b) THEN PyInt(a.v * b.v) ELSE FMul(AsFloat(a), AsFloat(b))
PyDiv(a, b) == FDiv(AsFloat(a), AsFloat(b))

\* a < b, a <= b and a == b of Python numbers, by value: 1 == 1.0
PyLess(a, b) == IF BothInt(a, b) THEN a.v < b.v ELSE FLess(AsFloat(a), AsFloat(b))
PyLeq(a, b) == ~PyLess(b, a)
PyEq(a, b) == IF BothInt(a, b) THEN a.v = b.v ELSE FEq(AsFloat(a), AsFloat(b))

\* abs(a)
PyAbs(a) == IF a.t = "int" THEN PyInt(Abs(a.v)) ELSE [a EXCEPT !.s = 1]

PyIsZero(a) == IF a.t = "int" THEN a.v = 0 ELSE FIsZero(a)

RECURSIVE Pow10(_)
Pow10(k) == IF k = 0 THEN 1 ELSE 10 * Pow10(k - 1)

\* 10 ** e: an int for e >= 0, the float nearest to 10^e for e < 0
TenTo(e) == IF e >= 0 THEN PyInt(Pow10(e)) ELSE PyFloat(1, <<1>>, e)

(***************************************************************************)
(* math.log10, as the C library computes it on doubles.  The code takes   *)
(* two decisions from it, both monotone in x and so each given by the     *)
(* doubles at which it changes.                                           *)
(***************************************************************************)
\* Log10Step[k] is the least double x with int(math.log10(x)) >= k: a few
\* doubles below 10^k for k >= 1 and, int() truncating toward zero, a few
\* doubles above 10^(k-1) for k <= 0.
Log10Step ==
    ( -40 :> Float(1, <<9736, 6116, 244, 223>>, -189)   \* 1.0000000000000083e-41
    @@ -39 :> Float(1, <<22469, 20206, 12440, 139>>, -185)   \* 1.0000000000000083e-40
    @@ -38 :> Float(1, <<11702, 25258, 7358, 174>>, -182)   \* 1.0000000000000082e-39
    @@ -37 :> Float(1, <<31012, 15188, 25582, 217>>, -179)   \* 1.0000000000000083e-38
    @@ -36 :> Float(1, <<2999, 1301, 3701, 136>>, -175)   \* 1.0000000000000084e-37
    @@ -35 :> Float(1, <<11940, 9818, 4626, 170>>, -172)   \* 1.0000000000000083e-36
    @@ -34 :> Float(1, <<31309, 28656, 22166, 212>>, -169)   \* 1.0000000000000083e-35
    @@ -33 :> Float(1, <<19568, 9718, 30238, 132>>, -165)   \* 1.0000000000000083e-34
    @@ -32 :> Float(1, <<8076, 28532, 5029, 166>>, -162)   \* 1.0000000000000083e-33
    @@ -31 :> Float(1, <<10065, 11089, 22671, 207>>, -159)   \* 1.0000000000000042e-32
    @@ -30 :> Float(1, <<26771, 19218, 26457, 129>>, -155)   \* 1.0000000000000042e-31
    @@ -29 :> Float(1, <<17079, 32215, 8495, 162>>, -152)   \* 1.0000000000000041e-30
    @@ -28 :> Float(1, <<13157, 32077, 27003, 202>>, -149)   \* 1.0000000000000041e-29
    @@ -27 :> Float(1, <<24638, 31904, 17370, 253>>, -146)   \* 1.0000000000000041e-28
    @@ -26 :> Float(1, <<15399, 28132, 14952, 158>>, -142)   \* 1.0000000000000042e-27
    @@ -25 :> Float(1, <<19249, 2397, 2307, 198>>, -139)   \* 1.0000000000000042e-26
    @@ -24 :> Float(1, <<32253, 27572, 19267, 247>>, -136)   \* 1.0000000000000042e-25
    @@ -23 :> Float(1, <<3774, 13137, 24330, 154>>, -132)   \* 1.0000000000000041e-24
    @@ -22 :> Float(1, <<12910, 37, 14029, 193>>, -129)   \* 1.0000000000000042e-23
    @@ -21 :> Float(1, <<24329, 8238, 25728, 241>>, -126)   \* 1.0000000000000042e-22
    @@ -20 :> Float(1, <<7014, 5149, 3792, 151>>, -122)   \* 1.0000000000000042e-21
    @@ -19 :> Float(1, <<16959, 6436, 29316, 188>>, -119)   \* 1.0000000000000042e-20
    @@ -18 :> Float(1, <<21199, 8045, 3877, 236>>, -116)   \* 1.0000000000000042e-19
    @@ -17 :> Float(1, <<17345, 9124, 18807, 147>>, -112)   \* 1.0000000000000041e-18
    @@ -16 :> Float(1, <<21682, 3213, 15317, 184>>, -109)   \* 1.0000000000000042e-17
    @@ -15 :> Float(1, <<2509, 12209, 19146, 230>>, -106)   \* 1.0000000000000021e-16
    @@ -14 :> Float(1, <<22049, 15822, 3774, 144>>, -102)   \* 1.0000000000000022e-15
    @@ -13 :> Float(1, <<11176, 3394, 4718, 180>>, -99)   \* 1.000000000000002e-14
    @@ -12 :> Float(1, <<30355, 20626, 5897, 225>>, -96)   \* 1.0000000000000022e-13
    @@ -11 :> Float(1, <<27164, 603, 24166, 140>>, -92)   \* 1.0000000000000022e-12
    @@ -10 :> Float(1, <<25762, 17138, 30207, 175>>, -89)   \* 1.000000000000002e-11
    @@ -9 :> Float(1, <<15819, 13231, 29567, 219>>, -86)   \* 1.0000000000000021e-10
    @@ -8 :> Float(1, <<22176, 20557, 14383, 137>>, -82)   \* 1.0000000000000023e-09
    @@ -7 :> Float(1, <<3137, 17505, 26171, 171>>, -79)   \* 1.0000000000000012e-08
    @@ -6 :> Float(1, <<12113, 13689, 24522, 214>>, -76)   \* 1.0000000000000011e-07
    @@ -5 :> Float(1, <<28051, 16747, 7134, 134>>, -72)   \* 1.0000000000000012e-06
    @@ -4 :> Float(1, <<26871, 4550, 25302, 167>>, -69)   \* 1.0000000000000011e-05
    @@ -3 :> Float(1, <<17201, 22072, 23435, 209>>, -66)   \* 0.00010000000000000006
    @@ -2 :> Float(1, <<10751, 9699, 2359, 131>>, -62)   \* 0.0010000000000000007
    @@ -1 :> Float(1, <<5245, 3932, 27525, 163>>, -59)   \* 0.010000000000000004
    @@ 0 :> Float(1, <<6555, 13107, 26214, 204>>, -56)   \* 0.10000000000000002
    @@ 1 :> Float(1, <<0, 0, 0, 160>>, -49)   \* 10.0
    @@ 2 :> Float(1, <<32767, 32767, 32767, 199>>, -46)   \* 99.99999999999999
    @@ 3 :> Float(1, <<32763, 32767, 32767, 249>>, -43)   \* 999.9999999999994
    @@ 4 :> Float(1, <<32766, 32767, 8191, 156>>, -39)   \* 9999.999999999996
    @@ 5 :> Float(1, <<32762, 32767, 10239, 195>>, -36)   \* 99999.99999999991
    @@ 6 :> Float(1, <<32759, 32767, 4607, 244>>, -33)   \* 999999.999999999
    @@ 7 :> Float(1, <<32763, 32767, 19263, 152>>, -29)   \* 9999999.99999999
    @@ 8 :> Float(1, <<32762, 32767, 24079, 190>>, -26)   \* 99999999.99999991
    @@ 9 :> Float(1, <<32750, 32767, 13715, 238>>, -23)   \* 999999999.9999979
    @@ 10 :> Float(1, <<32758, 16383, 380, 149>>, -19)   \* 9999999999.99998
    @@ 11 :> Float(1, <<32755, 20479, 8667, 186>>, -16)   \* 99999999999.9998
    @@ 12 :> Float(1, <<32751, 17407, 27218, 232>>, -13))   \* 999999999999.9979

\* Remainder0301[e] and Remainder0698[e] are the least doubles x of the decade
\* int(math.log10(x)) = e with math.log10(x) - e >= 0.301 and >= 0.698.
Remainder0301 ==
    ( 0 :> Float(1, <<28889, 20946, 32188, 255>>, -52)   \* 1.999861869632744
    @@ 1 :> Float(1, <<26249, 29475, 32405, 159>>, -48)   \* 19.998618696327444
    @@ 2 :> Float(1, <<24618, 12268, 32315, 199>>, -45)   \* 199.9861869632744
    @@ 3 :> Float(1, <<30772, 7143, 32202, 249>>, -42)   \* 1999.861869632744
    @@ 4 :> Float(1, <<31518, 12656, 7838, 156>>, -38)   \* 19998.61869632743
    @@ 5 :> Float(1, <<6629, 32205, 9797, 195>>, -35)   \* 199986.1869632743
    @@ 6 :> Float(1, <<16478, 15680, 4055, 244>>, -32)   \* 1999861.8696327428
    @@ 7 :> Float(1, <<10299, 22088, 18918, 152>>, -28)   \* 19998618.69632743
    @@ 8 :> Float(1, <<12867, 11226, 23648, 190>>, -25)   \* 199986186.9632741
    @@ 9 :> Float(1, <<32468, 14032, 13176, 238>>, -22)   \* 1999861869.632741
    @@ 10 :> Float(1, <<20293, 8770, 43, 149>>, -18)   \* 19998618696.32741
    @@ 11 :> Float(1, <<8982, 2771, 8246, 186>>, -15))   \* 199986186963.2741

Remainder0698 ==
    ( 0 :> Float(1, <<26147, 105, 21071, 159>>, -50)   \* 4.9888448746001215
    @@ 1 :> Float(1, <<8107, 24708, 18146, 199>>, -47)   \* 49.88844874600121
    @@ 2 :> Float(1, <<10131, 14501, 14491, 249>>, -44)   \* 498.88448746001194
    @@ 3 :> Float(1, <<10428, 4967, 29537, 155>>, -40)   \* 4988.8448746001195
    @@ 4 :> Float(1, <<4847, 14401, 28729, 194>>, -37)   \* 49888.448746001224
    @@ 5 :> Float(1, <<14250, 26193, 19527, 243>>, -34)   \* 498884.4874600122
    @@ 6 :> Float(1, <<29386, 28658, 8108, 152>>, -30)   \* 4988844.874600122
    @@ 7 :> Float(1, <<20349, 3055, 10136, 190>>, -27)   \* 49888448.74600122
    @@ 8 :> Float(1, <<17235, 3819, 29054, 237>>, -24)   \* 498884487.46001166
    @@ 9 :> Float(1, <<6676, 26963, 22254, 148>>, -20)   \* 4988844874.600117
    @@ 10 :> Float(1, <<153, 17320, 27818, 185>>, -17)   \* 49888448746.00117
    @@ 11 :> Float(1, <<191, 5266, 10197, 232>>, -14))   \* 498884487460.01166

(***************************************************************************)
(* repr of a float: the shortest decimal that reads back as the float.    *)
(***************************************************************************)
\* a float x # 0 is exactly ExactNum(x) / ExactDen(x) in magnitude
ExactNum(x) == IF x.e >= 0 THEN BShl(x.m, x.e) ELSE x.m
ExactDen(x) == IF x.e >= 0 THEN <<1>> ELSE BShl(<<1>>, -x.e)

\* |x| * 10^scale is ScaledNum / ScaledDen
ScaledNum(x, scale) == IF scale >= 0 THEN BMul(ExactNum(x), BPow10(scale)) ELSE ExactNum(x)
ScaledDen(x, scale) == IF scale >= 0 THEN ExactDen(x) ELSE BMul(ExactDen(x), BPow10(-scale))

\* |x| >= 10^j
AtLeastPow10(x, j) == BCmp(ScaledNum(x, -j), ScaledDen(x, -j)) >= 0

\* the k with 10^(k-1) <= |x| < 10^k, sought from the guess k
RECURSIVE DecimalPointFrom(_, _)
DecimalPointFrom(x, k) ==
    IF AtLeastPow10(x, k) THEN DecimalPointFrom(x, k + 1)
    ELSE IF ~AtLeastPow10(x, k - 1) THEN DecimalPointFrom(x, k - 1)
    ELSE k

DecimalPoint(x) == DecimalPointFrom(x, ((53 + x.e) * 30103) \div 100000)

\* the decimal c * 10^(-scale) reads back as |x|
ReadsBack(x, c, scale) == FloatOfDecimal(1, c, -scale) = [x EXCEPT !.s = 1]

\* the first of the decimals cs that reads back as |x|, <<>> if none does
RECURSIVE FirstReadingBack(_, _, _)
FirstReadingBack(x, cs, scale) ==
    IF cs = <<>> THEN <<>>
    ELSE IF ReadsBack(x, Head(cs), scale) THEN Head(cs)
    ELSE FirstReadingBack(x, Tail(cs), scale)

\* the two decimals around q + r/d, the nearer first (of two as near the even
\* one), the only one where r = 0
Nearest(q, up, half) ==
    IF half < 0 \/ (half = 0 /\ ~BIsOdd(q)) THEN <<q, up>> ELSE <<up, q>>

Around(dm, d) ==
    IF dm.r = <<>> THEN <<dm.q>>
    ELSE Nearest(dm.q, BAdd(dm.q, <<1>>), BCmp(BMulSmall(dm.r, 2), d))

Decimals(n, d) == Around(BDivMod(n, d), d)

\* the n-digit decimal nearest to |x| that reads back as x, <<>> if none does
Candidate(x, k, n) ==
    FirstReadingBack(x, Decimals(ScaledNum(x, n - k), ScaledDen(x, n - k)), n - k)

\* the least number of digits, from n, at which a decimal reads back as x
\* (repr of a float): at 17 digits the nearest decimal always does
RECURSIVE ShortestFrom(_, _, _)
ShortestFrom(x, k, n) == IF Candidate(x, k, n) # <<>> THEN n ELSE ShortestFrom(x, k, n + 1)

\* the decimal digits of a natural, most significant first
RECURSIVE BDigits(_)
BDigits(a) ==
    IF a = <<>> THEN <<>>
    ELSE LET d == BDivSmall(a, 10) IN Append(BDigits(d.q), d.r)

RECURSIVE StripZeros(_)
StripZeros(ds) ==
    IF ds # <<>> /\ ds[Len(ds)] = 0 THEN StripZeros(SubSeq(ds, 1, Len(ds) - 1)) ELSE ds

\* the digits all of an n-digit decimal (one more where it rounded up to
\* 10^n) without their trailing zeros, and the place of the decimal point
Placed(all, k, n) == [digits |-> StripZeros(all), decpt |-> k + (Len(all) - n)]

ShortestDigits(x, k, n) == Placed(BDigits(Candidate(x, k, n)), k, n)

FloatDigitsAt(x, k) == ShortestDigits(x, k, ShortestFrom(x, k, 1))

\* the significant digits of x # 0 and the position of its decimal point
FloatDigits(x) == FloatDigitsAt(x, DecimalPoint(x))

RECURSIVE DigitString(_)
DigitString(ds) == IF ds = <<>> THEN "" ELSE ToString(Head(ds)) \o DigitString(Tail(ds))

\* the digits of an integer part with a comma before every group of three
RECURSIVE Grouped(_)
Grouped(ds) ==
    IF Len(ds) <= 3 THEN DigitString(ds)
    ELSE Grouped(SubSeq(ds, 1, Len(ds) - 3)) \o "," \o DigitString(SubSeq(ds, Len(ds) - 2, Len(ds)))

Zeros(n) == [i \in 1..n |-> 0]

\* d.ddde+xx, the exponent with two digits at least
Scientific(ds, ex) ==
    ToString(ds[1])
        \o (IF Len(ds) > 1 THEN "." \o DigitString(Tail(ds)) ELSE "")
        \o "e" \o (IF ex < 0 THEN "-" ELSE "+")
        \o (IF Abs(ex) < 10 THEN "0" ELSE "") \o ToString(Abs(ex))

\* the digits ds with the decimal point after the first decpt of them
FixedPoint(ds, decpt) ==
    IF decpt <= 0 THEN "0." \o DigitString(Zeros(-decpt) \o ds)
    ELSE IF decpt >= Len(ds) THEN Grouped(ds \o Zeros(decpt - Len(ds))) \o ".0"
    ELSE Grouped(SubSeq(ds, 1, decpt)) \o "." \o DigitString(SubSeq(ds, decpt + 1, Len(ds)))

FormatDigits(fd) ==
    IF fd.decpt > 16 \/ fd.decpt < -3 THEN Scientific(fd.digits, fd.decpt - 1)
    ELSE FixedPoint(fd.digits, fd.decpt)

\* '{0:,}'.format(x) of a float: repr's shortest digits, a decimal point
\* always, exponent notation below 1e-04 and from 1e+16
FormatFloat(x) ==
    IF FIsZero(x) THEN (IF x.s = -1 THEN "-0.0" ELSE "0.0")
    ELSE (IF x.s = -1 THEN "-" ELSE "") \o FormatDigits(FloatDigits(x))

\* int(math.log10(x)) of a float x > 0 within the table, from 1e-41 up to
\* 1e12.  int() truncates toward zero: the floor of the logarithm for x >= 1,
\* its ceiling for x < 1.
IntLog10(x) ==
    CHOOSE k \in -40..11 : ~FLess(x, Log10Step[k]) /\ FLess(x, Log10Step[k + 1])

\* leader = 2 if remainder < 0.301 else (5 if remainder < 0.698 else 10), for
\* remainder = math.log10(x) - e with e = int(math.log10(x)): for e < 0, and
\* for x < 1, the remainder is not positive
Leader(x, e) ==
    IF e < 0 THEN 2
    ELSE IF FLess(x, Remainder0301[e]) THEN 2
    ELSE IF FLess(x, Remainder0698[e]) THEN 5
    ELSE 10

(***************************************************************************)
(* Results of a call: the returned list, or the exception it raised.       *)
(***************************************************************************)
Ok(l) == [err |-> "none", limits |-> l]
Raise(e) == [err |-> e, limits |-> <<>>]

Range(s) == {s[i] : i \in DOMAIN s}

IsNumeric(v) == v.t \in {"int", "float"}
IsDateLike(v) == v.t \in {"date", "datetime"}

\* a float holding a whole number small enough to be written as an int
IsSmallWhole(v) == v.e + 53 <= 31 /\ (v.e >= 0 \/ ~BShr(v.m, -v.e).inexact)

\* what a set keeps of a value: numbers that compare equal (1 and 1.0, 0.0 and
\* -0.0) hash alike and count once
HashKey(v) ==
    IF v.t # "float" THEN v
    ELSE IF FIsZero(v) THEN PyInt(0)
    ELSE IF IsSmallWhole(v) THEN PyInt(BigToInt(FFloor(v)))
    ELSE v

\* len(set(values))
DistinctCount(vals) == Cardinality({HashKey(v) : v \in Range(vals)})

(***************************************************************************)
(* get_numeric_limits                                                      *)
(***************************************************************************)
\* min(values) and max(values) of a non-empty sequence of numbers: the first
\* of the least, the first of the greatest
NumMin(vals) ==
    vals[CHOOSE i \in DOMAIN vals :
            /\ \A j \in DOMAIN vals : ~PyLess(vals[j], vals[i])
            /\ \A j \in 1..(i - 1) : PyLess(vals[i], vals[j])]

NumMax(vals) ==
    vals[CHOOSE i \in DOMAIN vals :
            /\ \A j \in DOMAIN vals : ~PyLess(vals[i], vals[j])
            /\ \A j \in 1..(i - 1) : PyLess(vals[j], vals[i])]

\* the float literals 1.2 and 0.95
Float_1_2 == PyFloat(1, <<1, 2>>, -1)
Float_0_95 == PyFloat(1, <<9, 5>>, -2)

\* raw_pad = (1.2 * value_max - 0.95 * value_min) / max_ticks
RawPad(value_min, value_max, mt) ==
    PyDiv(PySub(PyMul(Float_1_2, value_max), PyMul(Float_0_95, value_min)), PyInt(mt))

\* leader * 10 ** e for x = abs(raw_pad) and e = int(math.log10(x))
PadAt(x, e) == PyMul(PyInt(Leader(x, e)), TenTo(e))

\* pad = leader * 10 ** int(math.log10(abs(raw_pad)))
Pad(raw_pad) == PadAt(AsFloat(PyAbs(raw_pad)), IntLog10(AsFloat(PyAbs(raw_pad))))

\* y * pad for an int y of any size
PadTimes(y, pad) ==
    IF pad.t = "int" THEN PyMul(PyInt(BigToInt(y)), pad) ELSE FMul(BigToFloat(y), pad)

\* [y * pad for y in range(start, end + 1)]
PadRange(start, end, pad) ==
    [k \in 1..(BigDifference(end, start) + 1) |-> PadTimes(BigPlus(start, k - 1), pad)]

\* start = int(math.floor(0.95 * value_min / pad)), end = int(math.ceil(1.2 *
\* value_max / pad)) and the list returned
LimitsByPad(value_min, value_max, pad) ==
    PadRange(FFloor(PyDiv(PyMul(Float_0_95, value_min), pad)),
             FCeil(PyDiv(PyMul(Float_1_2, value_max), pad)), pad)

\* max_ticks = 0 raises ZeroDivisionError; math.log10(0) raises ValueError:
\* math domain error
LimitsByRawPad(value_min, value_max, raw_pad) ==
    IF IsExc(raw_pad) THEN Raise(raw_pad.err)
    ELSE IF PyIsZero(raw_pad) THEN Raise("ValueError")
    ELSE Ok(LimitsByPad(value_min, value_max, Pad(raw_pad)))

LimitsBetween(value_min, value_max, mt) ==
    LimitsByRawPad(value_min, value_max, RawPad(value_min, value_max, mt))

get_numeric_limits(vals, mt) == LimitsBetween(NumMin(vals), NumMax(vals), mt)

(***************************************************************************)
(* Calendar arithmetic of datetime.date and datetime.datetime.             *)
(***************************************************************************)
Date(y, m, d) == [t |-> "date", year |-> y, month |-> m, day |-> d]
DateTime(y, m, d, h) == [t |-> "datetime", year |-> y, month |-> m, day |-> d, hour |-> h]

IsLeap(y) == y % 4 = 0 /\ (y % 100 # 0 \/ y % 400 = 0)

DaysInMonth(y, m) ==
    IF m = 2 THEN (IF IsLeap(y) THEN 29 ELSE 28)
    ELSE IF m \in {4, 6, 9, 11} THEN 30 ELSE 31

RECURSIVE DaysBeforeMonth(_, _)
DaysBeforeMonth(y, m) == IF m = 1 THEN 0 ELSE DaysBeforeMonth(y, m - 1) + DaysInMonth(y, m - 1)

DaysBeforeYear(y) == (y - 1) * 365 + (y - 1) \div 4 - (y - 1) \div 100 + (y - 1) \div 400

\* date.toordinal()
ToOrdinal(v) == DaysBeforeYear(v.year) + DaysBeforeMonth(v.year, v.month) + v.day

HourOf(v) == IF v.t = "datetime" THEN v.hour ELSE 0

\* hours since the epoch: the order of two dates, or of two datetimes
Hours(v) == 24 * ToOrdinal(v) + HourOf(v)

DateMin(vals) == CHOOSE v \in Range(vals) : \A w \in Range(vals) : Hours(v) <= Hours(w)
DateMax(vals) == CHOOSE v \in Range(vals) : \A w \in Range(vals) : Hours(w) <= Hours(v)

\* (date_max - date_min).days: a timedelta's days are the floor of the difference
DeltaDays(hi, lo) == (Hours(hi) - Hours(lo)) \div 24

\* datetime.MAXYEAR: no date or datetime lies after the year 9999
MAXYEAR == 9999

\* what stands for a date where the arithmetic left the calendar
Overflow == [t |-> "OverflowError"]

\* the datetime n >= 0 days after the first day of month (y, m), as a date;
\* OverflowError where that is after MAXYEAR
RECURSIVE AddDays(_, _, _)
AddDays(y, m, n) ==
    IF n < DaysInMonth(y, m) THEN Date(y, m, n + 1)
    ELSE IF m < 12 THEN AddDays(y, m + 1, n - DaysInMonth(y, m))
    ELSE IF y < MAXYEAR THEN AddDays(y + 1, 1, n - DaysInMonth(y, m))
    ELSE Overflow

(***************************************************************************)
(* get_big_date_limits                                                     *)
(***************************************************************************)
\* the snapped interval: raw_interval = total_days / 30.0 / max_ticks against
\* the thresholds 1, 2, 3 and 6
Snapped(raw_interval) ==
    IF PyLeq(raw_interval, PyInt(1)) THEN 1
    ELSE IF PyLeq(raw_interval, PyInt(2)) THEN 2
    ELSE IF PyLeq(raw_interval, PyInt(3)) THEN 3
    ELSE IF PyLeq(raw_interval, PyInt(6)) THEN 6
    ELSE 12

\* raw_interval = approx_months / max_ticks, approx_months = total_days / 30.0
RawInterval(total_days, mt) ==
    PyDiv(PyDiv(PyInt(total_days), PyFloat(1, <<3, 0>>, 0)), PyInt(mt))

IntervalMonths(total_days, mt) == Snapped(RawInterval(total_days, mt))

\* ticks.append(tick) before the rest of the loop, which may raise
TickBefore(tick, rest) == IF rest.err = "none" THEN Ok(<<tick>> \o rest.limits) ELSE rest

\* the while loop: ticks from current_tick = datetime(y, m, 1) while
\* current_tick <= end.  The next current_tick is built before the loop
\* tests it: datetime(year, month, 1) of a year after MAXYEAR raises
\* ValueError
RECURSIVE TickLoop(_, _, _, _)
TickLoop(y, m, end, interval_months) ==
    IF y > MAXYEAR THEN Raise("ValueError")
    ELSE IF ToOrdinal(Date(y, m, 1)) <= ToOrdinal(end)
    THEN TickBefore(Date(y, m, 1),
                    TickLoop(y + (m + interval_months - 1) \div 12,
                             ((m + interval_months - 1) % 12) + 1, end, interval_months))
    ELSE Ok(<<>>)

FirstOfMonth(later) == IF later.t = "OverflowError" THEN Overflow ELSE Date(later.year, later.month, 1)

\* end = datetime(date_max.year, date_max.month, 1) + timedelta(days=31), which
\* raises OverflowError after MAXYEAR, then the first day of that month
EndOfRange(date_max) == FirstOfMonth(AddDays(date_max.year, date_max.month, 31))

DateTicks(date_min, end, interval_months) ==
    IF end.t = "OverflowError" THEN Raise("OverflowError")
    ELSE TickLoop(date_min.year, date_min.month, end, interval_months)

\* max_ticks = 0 raises ZeroDivisionError
DateLimitsBetween(date_min, date_max, mt) ==
    IF DeltaDays(date_max, date_min) <= 0 THEN Raise("ValueError")
    ELSE IF IsExc(RawInterval(DeltaDays(date_max, date_min), mt))
    THEN Raise("ZeroDivisionError")
    ELSE DateTicks(date_min, EndOfRange(date_max),
                   IntervalMonths(DeltaDays(date_max, date_min), mt))

get_big_date_limits(dates, mt) ==
    IF \E v, w \in Range(dates) : v.t # w.t
    THEN Raise("TypeError")     \* min(dates) cannot compare a datetime to a date
    ELSE DateLimitsBetween(DateMin(dates), DateMax(dates), mt)

(***************************************************************************)
(* get_limits                                                              *)
(***************************************************************************)
\* get_limits that lets a mixed collection fail in the comparison of its values
get_limits_mixed_type_error(vals, mt) ==
    IF DistinctCount(vals) <= 1 THEN Raise("ValueError")
    ELSE IF \A v \in Range(vals) : IsDateLike(v) THEN get_big_date_limits(vals, mt)
    ELSE IF \A v \in Range(vals) : IsNumeric(v) THEN get_numeric_limits(vals, mt)
    ELSE Raise("TypeError")

get_limits(vals, mt) ==
    IF DistinctCount(vals) <= 1 THEN Raise("ValueError")
    ELSE IF \A v \in Range(vals) : IsDateLike(v) THEN get_big_date_limits(vals, mt)
    ELSE IF \A v \in Range(vals) : IsNumeric(v) THEN get_numeric_limits(vals, mt)
    ELSE Raise("ValueError")

(***************************************************************************)
(* The limit calculation on its own: the inputs are drawn by LimitsInit    *)
(* and ComputeLimits applies get_limits to them.                           *)
(***************************************************************************)
\* the longest input collection
MaxLen == 2

NumPool ==
    {PyInt(k) : k \in {-100, -99, -58, -46, -24, -19, -10, -5, 0, 1, 3, 5, 10, 100, 250, 400}}
        \cup {PyFloat(1, <<1>>, -1), PyFloat(1, <<5>>, -1), PyFloat(1, <<2, 5>>, -1),
              PyFloat(1, <<5>>, 0), PyFloat(1, <<4, 9, 9, 9, 7>>, -4)}

DatePool ==
    {Date(2023, 11, 30), Date(2024, 1, 15), Date(2024, 3, 20), Date(2024, 6, 30),
     Date(2025, 2, 10), DateTime(2024, 1, 15, 0), DateTime(2024, 1, 15, 12),
     DateTime(2024, 6, 20, 0)}

ValuePool == NumPool \cup DatePool

Pending == [err |-> "pending", limits |-> <<>>]

LimitsInit ==
    /\ values \in UNION {[1..n -> ValuePool] : n \in 0..MaxLen}
    /\ max_ticks \in 1..MaxTicks
    /\ result = Pending
    /\ pc = "start"
    /\ args = <<>>
    /\ chart = <<>>
    /\ err = "none"
    /\ out = <<>>
    /\ calls = 0

ComputeLimits ==
    /\ result = Pending
    /\ result' = get_limits(values, max_ticks)
    /\ UNCHANGED <<values, max_ticks>>
    /\ UNCHANGED chartVars

LimitsNext == ComputeLimits

SpecLimits == LimitsInit /\ [][LimitsNext]_vars

(***************************************************************************)
(* Claims about get_limits, checked under SpecLimits.                      *)
(***************************************************************************)
Computed == result # Pending

\* a valid numeric input: numbers only, at least two distinct
ValidNumeric(vals) ==
    /\ DistinctCount(vals) >= 2
    /\ \A v \in Range(vals) : IsNumeric(v)

\* a valid date input: dates only or datetimes only, with a positive span
ValidDates(vals) ==
    /\ DistinctCount(vals) >= 2
    /\ \/ \A v \in Range(vals) : v.t = "date"
       \/ \A v \in Range(vals) : v.t = "datetime"
    /\ DeltaDays(DateMax(vals), DateMin(vals)) > 0

\* value a precedes value b (numbers by value, dates by time)
Before(a, b) == IF IsNumeric(a) THEN PyLess(a, b) ELSE Hours(a) < Hours(b)

StrictlyIncreasing(l) == \A i \in 1..(Len(l) - 1) : Before(l[i], l[i + 1])

\* C1: for every valid numeric input (negative values and values below 1 in
\* magnitude included) and every max_ticks >= 1 the returned limits bracket the
\* data: min(limits) <= min(values) and max(limits) >= max(values).
C1_NumericLimitsBracketData ==
    (Computed /\ ValidNumeric(values)) =>
        /\ result.err = "none"
        /\ Len(result.limits) >= 1
        /\ PyLeq(NumMin(result.limits), NumMin(values))
        /\ PyLeq(NumMax(values), NumMax(result.limits))

\* C2: for any valid input, numeric or date, and any max_ticks >= 1, get_limits
\* returns a strictly increasing sequence of length >= 2.
C2_LimitsIncreasingLengthTwo ==
    (Computed /\ (ValidNumeric(values) \/ ValidDates(values))) =>
        /\ result.err = "none"
        /\ Len(result.limits) >= 2
        /\ StrictlyIncreasing(result.limits)

\* C3: for every date input with a positive span and every max_ticks >= 1 the
\* first tick is the first day of min(dates)'s month and the last tick is not
\* earlier than max(dates).
C3_DateLimitsBracketData ==
    (Computed /\ ValidDates(values)) =>
        /\ result.err = "none"
        /\ Len(result.limits) >= 1
        /\ result.limits[1] = Date(DateMin(values).year, DateMin(values).month, 1)
        /\ Hours(result.limits[1]) <= Hours(DateMin(values))
        /\ Hours(DateMax(values)) <= Hours(result.limits[Len(result.limits)])

\* two numbers equal up to the rounding of float arithmetic
Tolerance == PyFloat(1, <<1>>, -9)
Close(a, b) == PyLeq(PyAbs(PySub(a, b)), Tolerance)

\* m = floor(log10(x)) for a float x > 0, of either sign: 10^m <= x < 10^(m+1)
FloorOfLog10(x) == DecimalPoint(x) - 1

\* rawStep = (1.2*max - 0.95*min)/max_ticks of the input
RawStep(vals, mt) == RawPad(NumMin(vals), NumMax(vals), mt)

\* step = leader * 10^m with m = floor(log10(|rawStep|)) and the leader snapped
\* from r = log10(|rawStep|) - m, that is from |rawStep| / 10^m in [1, 10)
StepOf(raw_step) ==
    LET m == FloorOfLog10(PyAbs(raw_step))
        scaled == PyDiv(PyAbs(raw_step), TenTo(m))
        leader == IF FLess(scaled, Remainder0301[0]) THEN 2
                  ELSE IF FLess(scaled, Remainder0698[0]) THEN 5 ELSE 10
    IN  PyMul(PyInt(leader), TenTo(m))

ConstantDifference(l, step) == \A i \in 1..(Len(l) - 1) : Close(PySub(l[i + 1], l[i]), step)

\* C11: for every valid numeric input the consecutive differences of the
\* returned limits are constant and equal step = leader * 10^m, with
\* m = floor(log10(|rawStep|)) and leader 2, 5 or 10 by the remainder, also
\* when |rawStep| < 1, so that the step lies within one decade above |rawStep|.
C11_StepIsLeaderTimesPowerOfTen ==
    (Computed /\ ValidNumeric(values) /\ result.err = "none") =>
        LET raw_step == RawStep(values, max_ticks)
        IN  /\ ConstantDifference(result.limits, StepOf(raw_step))
            /\ Len(result.limits) >= 2 =>
                    LET step == PySub(result.limits[2], result.limits[1])
                    IN  /\ PyLess(PyAbs(raw_step), step)
                        /\ PyLeq(step, PyMul(PyInt(10), PyAbs(raw_step)))

(***************************************************************************)
(* Shapes.  A style dict is a sequence of <<name, value>> pairs in         *)
(* insertion order.  A styles attribute is a reference: Own(m) is a dict   *)
(* no series holds, SharedWith(name) is the very dict object that          *)
(* chart.series[name].styles is bound to, so that a change made in place   *)
(* through the series shows in every shape that shares it.                 *)
(***************************************************************************)
Own(m) == [shared |-> "", map |-> m]
SharedWith(name) == [shared |-> name, map |-> <<>>]

\* d[k] = v on a dict: the value of an existing key is replaced in place, a new
\* key is appended
DictSet(m, k, v) ==
    IF \E i \in DOMAIN m : m[i][1] = k
    THEN [i \in DOMAIN m |-> IF m[i][1] = k THEN <<k, v>> ELSE m[i]]
    ELSE Append(m, <<k, v>>)

None == [shape |-> "none"]

Point(x_position, y_position) == [x |-> x_position, y |-> y_position]

Line(x_position, y_position, width, height, styles) ==
    [shape |-> "line", position |-> Point(x_position, y_position),
     end |-> Point(PyAdd(x_position, width), PyAdd(y_position, height)), styles |-> styles]

Circle(x_position, y_position, radius, styles) ==
    [shape |-> "circle", position |-> Point(x_position, y_position),
     radius |-> radius, styles |-> styles]

Text(x_position, y_position, content, styles) ==
    [shape |-> "text", position |-> Point(x_position, y_position),
     content |-> content, styles |-> styles]

path_default_styles == <<<<"stroke-width", "2">>>>

SimpleLineSeries(points) ==
    [shape |-> "path", position |-> points[1], points |-> points,
     styles |-> Own(path_default_styles)]

(***************************************************************************)
(* default_format: '{0:,}'.format(value)                                   *)
(***************************************************************************)
\* three digits, zero padded
Digits3(n) == (IF n < 10 THEN "00" ELSE IF n < 100 THEN "0" ELSE "") \o ToString(n)

RECURSIVE GroupThousands(_)
GroupThousands(n) ==
    IF n < 1000 THEN ToString(n)
    ELSE GroupThousands(n \div 1000) \o "," \o Digits3(n % 1000)

\* an int prints with thousands separators; a float prints as repr does, its
\* integer part with thousands separators; a date formats the spec ","
\* through strftime, which gives ","
default_format(value) ==
    IF IsDateLike(value) THEN ","
    ELSE IF value.t = "int"
    THEN (IF value.v < 0 THEN "-" ELSE "") \o GroupThousands(Abs(value.v))
    ELSE FormatFloat(value)

(***************************************************************************)
(* Axis                                                                    *)
(***************************************************************************)
default_axis_styles == <<<<"stroke", "#2e2e2c">>>>
XAxis_default_tick_text_styles == <<<<"text-anchor", "middle">>, <<"dominant-baseline", "hanging">>>>
YAxis_default_tick_text_styles == <<<<"text-anchor", "end">>, <<"dominant-baseline", "middle">>>>
\* tick_length=5, the default of the axis constructors
tick_length == 5

\* min(self.limits) and max(self.limits)
LimitsMin(limits) == IF IsNumeric(limits[1]) THEN NumMin(limits) ELSE DateMin(limits)
LimitsMax(limits) == IF IsNumeric(limits[1]) THEN NumMax(limits) ELSE DateMax(limits)

\* a - b: the difference of two numbers, the timedelta (in hours) of two
\* dates or of two datetimes; a datetime and a date, or a number and a date,
\* do not subtract
Minus(a, b) ==
    IF IsNumeric(a) /\ IsNumeric(b) THEN PySub(a, b)
    ELSE IF IsDateLike(a) /\ a.t = b.t THEN [t |-> "timedelta", hours |-> Hours(a) - Hours(b)]
    ELSE Exc("TypeError")

\* the number a quotient takes for a number or for a timedelta
Amount(a) == IF a.t = "timedelta" THEN PyInt(a.hours) ELSE a

\* a / b of two numbers or of two timedeltas: a float
TrueDiv(a, b) == PyDiv(Amount(a), Amount(b))

\* above / span, unless computing one of them raised
Proportion(above, span) ==
    IF IsExc(above) THEN above
    ELSE IF IsExc(span) THEN span
    ELSE TrueDiv(above, span)

\* Axis.proportion_of_range: min() of no limits raises ValueError
proportion_of_range(axis, value) ==
    IF axis.limits = <<>> THEN Exc("ValueError")
    ELSE Proportion(Minus(value, LimitsMin(axis.limits)),
                    Minus(LimitsMax(axis.limits), LimitsMin(axis.limits)))

\* what a constructor gives: the object, or the exception raised
Built(obj) == [err |-> "none", obj |-> obj]
Failed(e) == [err |-> e, obj |-> None]

\* quotient + by, unless the division raised
Shifted(quotient, by) == IF IsExc(quotient) THEN quotient ELSE PyAdd(quotient, by)

\* the tick loop of XAxis.__init__: the i-th (from 0) tick line and label
XAxis_tick_offset(x_position, axis_length, n, i) ==
    Shifted(PyDiv(PyMul(PyInt(i), axis_length), PyInt(n - 1)), x_position)

\* what one pass of the loop appends to tick_lines and to tick_text
XAxis_tick(width_offset, y_position, m) ==
    [line |-> Line(width_offset, y_position, PyInt(0), PyInt(tick_length),
                   Own(default_axis_styles)),
     text |-> Text(width_offset, PyAdd(y_position, PyInt(2 * tick_length)),
                   default_format(m), Own(XAxis_default_tick_text_styles))]

XAxis_ticks(x_position, y_position, axis_length, limits) ==
    [k \in DOMAIN limits |->
        XAxis_tick(XAxis_tick_offset(x_position, axis_length, Len(limits), k - 1),
                   y_position, limits[k])]

\* the axis with its axis line and the ticks the loop made
Axis_with(x_position, y_position, axis_length, limits, axis_line, ticks) ==
    [position |-> Point(x_position, y_position),
     length |-> axis_length,
     limits |-> limits,
     axis_line |-> axis_line,
     tick_lines |-> [k \in DOMAIN ticks |-> ticks[k].line],
     tick_text |-> [k \in DOMAIN ticks |-> ticks[k].text],
     grid_lines |-> <<>>]

XAxis_on(x_position, y_position, axis_length, lim) ==
    IF lim.err # "none" THEN Failed(lim.err)
    ELSE IF Len(lim.limits) = 1 THEN Failed("ZeroDivisionError")  \* i * length / (len(limits) - 1)
    ELSE Built(Axis_with(x_position, y_position, axis_length, lim.limits,
                         Line(x_position, y_position, axis_length, PyInt(0),
                              Own(default_axis_styles)),
                         XAxis_ticks(x_position, y_position, axis_length, lim.limits)))

XAxis_init(x_position, y_position, data_points, axis_length, mt) ==
    XAxis_on(x_position, y_position, axis_length, get_limits(data_points, mt))

\* the tick loop of YAxis.__init__: the i-th (from 0) tick line and label
YAxis_tick_offset(y_position, axis_length, n, i) ==
    Shifted(PyDiv(PyMul(PyInt(n - 1 - i), axis_length), PyInt(n - 1)), y_position)

\* what one pass of the loop appends to tick_lines and to tick_text
YAxis_tick(x_position, height_offset, m) ==
    [line |-> Line(PySub(x_position, PyInt(tick_length)), height_offset,
                   PyInt(tick_length), PyInt(0), Own(default_axis_styles)),
     text |-> Text(PySub(x_position, PyInt(2 * tick_length)), height_offset,
                   default_format(m), Own(YAxis_default_tick_text_styles))]

YAxis_ticks(x_position, y_position, axis_length, limits) ==
    [k \in DOMAIN limits |->
        YAxis_tick(x_position, YAxis_tick_offset(y_position, axis_length, Len(limits), k - 1),
                   limits[k])]

YAxis_on(x_position, y_position, axis_length, lim) ==
    IF lim.err # "none" THEN Failed(lim.err)
    ELSE IF Len(lim.limits) = 1 THEN Failed("ZeroDivisionError")  \* ... / (len(limits) - 1)
    ELSE Built(Axis_with(x_position, y_position, axis_length, lim.limits,
                         Line(x_position, y_position, PyInt(0), axis_length,
                              Own(default_axis_styles)),
                         YAxis_ticks(x_position, y_position, axis_length, lim.limits)))

YAxis_init(x_position, y_position, data_points, axis_length, mt) ==
    YAxis_on(x_position, y_position, axis_length, get_limits(data_points, mt))

\* XAxis.get_positions and YAxis.get_positions, for one value
XAxis_at(axis, p) == IF IsExc(p) THEN p ELSE PyAdd(axis.position.x, PyMul(p, axis.length))

XAxis_get_position(axis, v) == XAxis_at(axis, proportion_of_range(axis, v))

YAxis_at(axis, p) ==
    IF IsExc(p) THEN p ELSE PyAdd(axis.position.y, PyMul(axis.length, PySub(PyInt(1), p)))

YAxis_get_position(axis, v) == YAxis_at(axis, proportion_of_range(axis, v))

\* the least of a non-empty set of indices
First(bad) == CHOOSE k \in bad : \A j \in bad : k <= j

\* the list of positions, or the exception the first value that has one raises
Positions(ps, bad) ==
    IF bad = {} THEN [err |-> "none", positions |-> ps]
    ELSE [err |-> ps[First(bad)].err, positions |-> <<>>]

AllOrFirstError(ps) == Positions(ps, {k \in DOMAIN ps : IsExc(ps[k])})

YAxis_get_positions(axis, vals) ==
    AllOrFirstError([k \in DOMAIN vals |-> YAxis_get_position(axis, vals[k])])

\* SimpleXAxis.get_positions, for the x-th (from 0) of n values: a single
\* value divides by len(x_values) - 1 = 0
SimpleXAxis_get_position(axis, n, x) ==
    Shifted(PyDiv(PyMul(PyInt(x), axis.length), PyInt(n - 1)), axis.position.x)

\* SimpleXAxis.get_positions: the values evenly spaced whatever they are
SimpleXAxis_get_positions(axis, x_values) ==
    AllOrFirstError([k \in DOMAIN x_values |->
                        SimpleXAxis_get_position(axis, Len(x_values), k - 1)])

(***************************************************************************)
(* Serialisation: get_element_list and render.  A markup fragment is a     *)
(* record of the template it fills (tag) and the values filled in; the     *)
(* attribute string of render_styles is the sequence of its name="value"   *)
(* pairs.  c is the chart, which resolves a shared styles reference.       *)
(***************************************************************************)
\* the SimpleLineSeries that chart.series[name] is bound to
SeriesNamed(c, name) == (CHOOSE i \in DOMAIN c.series : c.series[i].name = name)

\* the dict a styles reference denotes
StylesOf(c, styles) ==
    IF styles.shared = "" THEN styles.map
    ELSE c.series[SeriesNamed(c, styles.shared)].obj.styles.map

render_styles(c, shape) == StylesOf(c, shape.styles)

Line_get_element_list(c, shape) ==
    <<[tag |-> "line", x1 |-> shape.position.x, y1 |-> shape.position.y,
       x2 |-> shape.end.x, y2 |-> shape.end.y, styles |-> render_styles(c, shape)]>>

Circle_get_element_list(c, shape) ==
    <<[tag |-> "circle", x |-> shape.position.x, y |-> shape.position.y,
       r |-> shape.radius, styles |-> render_styles(c, shape)]>>

Text_get_element_list(c, shape) ==
    <<[tag |-> "text", x |-> shape.position.x, y |-> shape.position.y,
       styles |-> render_styles(c, shape), content |-> shape.content]>>

\* M x y for the first point, L x y for the others
SimpleLineSeries_get_element_list(c, shape) ==
    <<[tag |-> "path",
       path |-> [k \in DOMAIN shape.points |->
                    <<IF k = 1 THEN "M" ELSE "L", shape.points[k].x, shape.points[k].y>>],
       styles |-> render_styles(c, shape)]>>

\* the get_element_list of a line, circle, text or path
Shape_get_element_list(c, shape) ==
    CASE shape.shape = "line" -> Line_get_element_list(c, shape)
      [] shape.shape = "circle" -> Circle_get_element_list(c, shape)
      [] shape.shape = "text" -> Text_get_element_list(c, shape)
      [] shape.shape = "path" -> SimpleLineSeries_get_element_list(c, shape)

RECURSIVE collapse_element_list(_, _)
collapse_element_list(c, built_ins) ==
    IF built_ins = <<>> THEN <<>>
    ELSE Shape_get_element_list(c, Head(built_ins)) \o collapse_element_list(c, Tail(built_ins))

safe_get_element_list(c, built_in) ==
    IF built_in # None THEN Shape_get_element_list(c, built_in) ELSE <<>>

Axis_get_element_list(c, axis) ==
    safe_get_element_list(c, axis.axis_line) \o collapse_element_list(c, axis.tick_lines)
        \o collapse_element_list(c, axis.tick_text) \o collapse_element_list(c, axis.grid_lines)

LineLegend_get_element_list(c, legend) ==
    collapse_element_list(c, legend.lines) \o collapse_element_list(c, legend.texts)

\* the series objects in the insertion order of the dict
SeriesObjects(c) == [k \in DOMAIN c.series |-> c.series[k].obj]

\* Chart.get_element_list with the custom elements taken before the series
Chart_get_element_list_custom_first(c) ==
    (IF c.x_axis # None THEN Axis_get_element_list(c, c.x_axis) ELSE <<>>)
        \o (IF c.y_axis # None THEN Axis_get_element_list(c, c.y_axis) ELSE <<>>)
        \o (IF c.legend # None THEN LineLegend_get_element_list(c, c.legend) ELSE <<>>)
        \o collapse_element_list(c, c.custom_elements)
        \o collapse_element_list(c, SeriesObjects(c))

Chart_get_element_list(c) ==
    (IF c.x_axis # None THEN Axis_get_element_list(c, c.x_axis) ELSE <<>>)
        \o (IF c.y_axis # None THEN Axis_get_element_list(c, c.y_axis) ELSE <<>>)
        \o (IF c.legend # None THEN LineLegend_get_element_list(c, c.legend) ELSE <<>>)
        \o collapse_element_list(c, SeriesObjects(c))
        \o collapse_element_list(c, c.custom_elements)

Chart_render(c) ==
    <<[tag |-> "svg", width |-> c.width, height |-> c.height]>>
        \o Chart_get_element_list(c) \o <<[tag |-> "/svg"]>>

(***************************************************************************)
(* Chart: grids, legend, custom elements.                                  *)
(***************************************************************************)
default_major_grid_styles == <<<<"stroke", "#2e2e2c">>>>
default_minor_grid_styles == <<<<"stroke", "#2e2e2c">>, <<"stroke-width", "0.4">>>>

Chart_init(height, width) ==
    [height |-> height, width |-> width, y_axis |-> None, x_axis |-> None,
     legend |-> None, series |-> <<>>, custom_elements |-> <<>>]

RECURSIVE Flatten(_)
Flatten(ss) == IF ss = <<>> THEN <<>> ELSE Head(ss) \o Flatten(Tail(ss))

\* the number of major grid lines a pass over limits[1:] draws
Majors(limits) == IF Len(limits) = 0 THEN 0 ELSE Len(limits) - 1

\* add_y_grid: the major line at the i-th (from 0) entry of x_axis.limits[1:]
YGrid_width_offset(c, i) ==
    PyAdd(PyDiv(PyMul(PyInt(i + 1), c.x_axis.length), PyInt(Len(c.x_axis.limits) - 1)),
         c.y_axis.position.x)

YGrid_minor_step(c, minor_ticks) ==
    PyDiv(PyDiv(c.x_axis.length, PyInt(Len(c.x_axis.limits) - 1)), PyInt(minor_ticks + 1))

YGrid_line(c, x_position, styles) ==
    Line(x_position, PySub(c.x_axis.position.y, c.y_axis.length), PyInt(0), c.y_axis.length,
         Own(styles))

\* the lines one pass of the loop appends: the major one at width_offset,
\* then the minor ones at minor_offset = width_offset - j * minor_step
YGrid_lines(c, width_offset, minor_step, minor_ticks) ==
    [n \in 1..(minor_ticks + 1) |->
        YGrid_line(c,
                   IF n = 1 THEN width_offset
                   ELSE PySub(width_offset, PyMul(PyInt(n - 1), minor_step)),
                   IF n = 1 THEN default_major_grid_styles ELSE default_minor_grid_styles)]

YGrid_lines_at(c, i, minor_ticks) ==
    YGrid_lines(c, YGrid_width_offset(c, i), YGrid_minor_step(c, minor_ticks), minor_ticks)

add_y_grid(c, minor_ticks) ==
    [c EXCEPT !.y_axis.grid_lines =
        @ \o Flatten([k \in 1..Majors(c.x_axis.limits) |-> YGrid_lines_at(c, k - 1, minor_ticks)])]

\* add_x_grid: the major line at the i-th (from 0) entry of y_axis.limits[1:]
XGrid_height_offset(c, i) ==
    PyAdd(PyDiv(PyMul(PyInt(Len(c.y_axis.limits) - 2 - i), c.y_axis.length),
              PyInt(Len(c.y_axis.limits) - 1)),
         c.x_axis.position.y)

XGrid_minor_step(c, minor_ticks) ==
    PyDiv(PyDiv(c.y_axis.length, PyInt(Len(c.y_axis.limits) - 1)), PyInt(minor_ticks + 1))

XGrid_line(c, height_offset, styles) ==
    Line(c.y_axis.position.x, PySub(height_offset, c.y_axis.length), c.x_axis.length, PyInt(0),
         Own(styles))

\* the lines one pass of the loop makes: the major one at height_offset,
\* then the minor ones at minor_offset = height_offset + j * minor_step
XGrid_lines(c, height_offset, minor_step, minor_ticks) ==
    [n \in 1..(minor_ticks + 1) |->
        XGrid_line(c,
                   IF n = 1 THEN height_offset
                   ELSE PyAdd(height_offset, PyMul(PyInt(n - 1), minor_step)),
                   IF n = 1 THEN default_major_grid_styles ELSE default_minor_grid_styles)]

XGrid_lines_at(c, i, minor_ticks) ==
    XGrid_lines(c, XGrid_height_offset(c, i), XGrid_minor_step(c, minor_ticks), minor_ticks)

\* the major line of every pass goes to x_axis.grid_lines, its minor lines to
\* y_axis.grid_lines
XGrid_appended(c, passes) ==
    [c EXCEPT
        !.x_axis.grid_lines = @ \o [k \in DOMAIN passes |-> Head(passes[k])],
        !.y_axis.grid_lines = @ \o Flatten([k \in DOMAIN passes |-> Tail(passes[k])])]

add_x_grid(c, minor_ticks) ==
    XGrid_appended(c, [k \in 1..Majors(c.y_axis.limits) |-> XGrid_lines_at(c, k - 1, minor_ticks)])

add_grids(c, minor_x_ticks, minor_y_ticks) == add_x_grid(add_y_grid(c, minor_y_ticks), minor_x_ticks)

add_custom_element(c, custom_element) ==
    [c EXCEPT !.custom_elements = Append(@, custom_element)]

default_line_legend_text_styles == <<<<"alignment-baseline", "middle">>>>

\* one swatch, sharing the series' own styles dict, and one label per series
LegendEntry(x_pos, y_pos, name, line_length, line_text_gap) ==
    [line |-> Line(x_pos, y_pos, line_length, PyInt(0), SharedWith(name)),
     text |-> Text(PyAdd(PyAdd(x_pos, line_length), line_text_gap), y_pos, name,
                   Own(default_line_legend_text_styles))]

Legend_with(x_position, y_position, entries) ==
    [shape |-> "legend", position |-> Point(x_position, y_position),
     lines |-> [k \in DOMAIN entries |-> entries[k].line],
     texts |-> [k \in DOMAIN entries |-> entries[k].text]]

\* x_pos and y_pos start at the legend's position and move by element_x and
\* element_y after every series
RECURSIVE LegendEntries(_, _, _, _, _, _, _)
LegendEntries(names, x_pos, y_pos, element_x, element_y, line_length, line_text_gap) ==
    IF names = <<>> THEN <<>>
    ELSE <<LegendEntry(x_pos, y_pos, Head(names), line_length, line_text_gap)>>
            \o LegendEntries(Tail(names), PyAdd(x_pos, element_x), PyAdd(y_pos, element_y),
                             element_x, element_y, line_length, line_text_gap)

\* the keys of self.series in the insertion order of the dict
SeriesKeys(c) == [k \in DOMAIN c.series |-> c.series[k].name]

LineLegend(c, x_position, y_position, element_x, element_y, line_length, line_text_gap) ==
    Legend_with(x_position, y_position,
                LegendEntries(SeriesKeys(c), x_position, y_position, element_x, element_y,
                              line_length, line_text_gap))

\* add_legend with its default arguments
add_legend(c) ==
    [c EXCEPT !.legend = LineLegend(c, PyInt(500), PyInt(60), PyInt(100), PyInt(0),
                                    PyInt(20), PyInt(5))]

(***************************************************************************)
(* SimpleLineChart.__init__, in its three statements: the y axis, the x    *)
(* axis, the series.  An exception ends the constructor: no chart is       *)
(* returned and what was built of self is dropped.                         *)
(***************************************************************************)
\* the defaults of SimpleLineChart.__init__
default_max_ticks == 12
default_x_margin == 100
default_y_margin == 100
default_height == 600
default_width == 800

line_colour_defaults == <<"green", "red", "blue">>

\* y_names, or the single name the default gives: 'Series {0}'.format(range(len(y_values)))
SeriesNames(a) ==
    IF a.has_names THEN a.y_names
    ELSE <<"Series range(0, " \o ToString(Len(a.y_values)) \o ")">>

\* lines 320-323: Chart.__init__, the pooled y values, the YAxis
SimpleLineChart_y_axis(a) ==
    YAxis_init(PyInt(default_x_margin), PyInt(default_y_margin), Flatten(a.y_values),
               PyInt(default_height - 2 * default_y_margin), a.y_max_ticks)

\* line 324: the SimpleXAxis
SimpleLineChart_x_axis(a) ==
    XAxis_init(PyInt(default_x_margin), PyInt(default_height - default_y_margin), a.x_values,
               PyInt(default_width - 2 * default_x_margin), a.x_max_ticks)

\* [Point(x, y) for x, y in zip(xs, ys)]
SeriesPoints(xs, ys) == [k \in 1..Min2(Len(xs), Len(ys)) |-> Point(xs[k], ys[k])]

\* one value of the dict comprehension, or the exception making it raises:
\* y_axis.get_positions may raise, SimpleLineSeries takes points[0]
SeriesFrom(xs, ys) ==
    IF xs.err # "none" THEN Failed(xs.err)
    ELSE IF ys.err # "none" THEN Failed(ys.err)
    ELSE IF Min2(Len(xs.positions), Len(ys.positions)) = 0 THEN Failed("IndexError")
    ELSE Built(SimpleLineSeries(SeriesPoints(xs.positions, ys.positions)))

SeriesOf(c, x_values, y_value) ==
    SeriesFrom(SimpleXAxis_get_positions(c.x_axis, x_values),
               YAxis_get_positions(c.y_axis, y_value))

\* the keys of the dict {name: ... for name, y_value in zip(names, y_values)}
\* over its first n pairs, each given by the pair that inserted it: a name
\* met again keeps its place
RECURSIVE DictKeys(_, _)
DictKeys(names, n) ==
    IF n = 0 THEN <<>>
    ELSE IF \E j \in 1..(n - 1) : names[j] = names[n] THEN DictKeys(names, n - 1)
    ELSE Append(DictKeys(names, n - 1), n)

\* the pair whose value the dict holds under a name: the last one of that name
DictValue(names, n, name) ==
    CHOOSE k \in 1..n : names[k] = name /\ \A j \in (k + 1)..n : names[j] # name

\* the series under their names, each with its default colour: index runs
\* over the keys of the dict
Coloured(names, made, keys) ==
    [index \in DOMAIN keys |->
        [name |-> names[keys[index]],
         obj |-> [made[DictValue(names, Len(made), names[keys[index]])].obj
                    EXCEPT !.styles.map = DictSet(@, "stroke", line_colour_defaults[index])]]]

\* the dict comprehension raises what its first failing value raises; the
\* colour loop raises IndexError past the last default colour
SeriesDict(names, made, bad, keys) ==
    IF bad # {} THEN Failed(made[First(bad)].err)
    ELSE IF Len(keys) > Len(line_colour_defaults) THEN Failed("IndexError")
    ELSE Built(Coloured(names, made, keys))

SeriesMade(names, made) ==
    SeriesDict(names, made, {k \in DOMAIN made : made[k].err # "none"},
               DictKeys(names, Len(made)))

\* lines 325-327: the dict of series, then a default colour for each
SimpleLineChart_series(c, a) ==
    SeriesMade(SeriesNames(a),
               [k \in 1..Min2(Len(SeriesNames(a)), Len(a.y_values)) |->
                   SeriesOf(c, a.x_values, a.y_values[k])])

(***************************************************************************)
(* What the caller does to the styles of a series.                         *)
(***************************************************************************)
\* chart.series[name].styles[key] = value: the dict is changed in place
UpdateSeriesStyle(c, i, key, value) ==
    [c EXCEPT !.series[i].obj.styles.map = DictSet(@, key, value)]

\* a legend whose swatches sharing the dict of series `name` keep that dict, now
\* bound to no series
Detach(c, legend, name) ==
    IF legend = None THEN None
    ELSE [legend EXCEPT !.lines =
            [k \in DOMAIN legend.lines |->
                IF legend.lines[k].styles.shared = name
                THEN [legend.lines[k] EXCEPT !.styles = Own(StylesOf(c, legend.lines[k].styles))]
                ELSE legend.lines[k]]]

\* chart.series[name].styles = new_styles: the attribute is bound to a new dict
ReplaceSeriesStyles(c, i, new_styles) ==
    [c EXCEPT !.series[i].obj.styles = Own(new_styles),
              !.legend = Detach(c, c.legend, c.series[i].name)]

(***************************************************************************)
(* The inputs of the chart model.                                          *)
(***************************************************************************)
\* the most y series a chart is given
MaxSeries == 2
\* the most calls that change a chart
MaxCalls == 2
\* the minor_ticks a grid call asks for
MinorChoices == {0, 2}

Ints(s) == [k \in DOMAIN s |-> PyInt(s[k])]

\* the floats k / 10 written as literals: 0.1, 0.5, 0.3
Tenths(s) == [k \in DOMAIN s |-> PyFloat(1, <<s[k]>>, -1)]

XInputs ==
    {Ints(<<0, 1, 2>>),
     <<Date(2024, 1, 15), Date(2024, 2, 20), Date(2024, 3, 20)>>,
     <<>>,
     Ints(<<5, 5>>),
     <<PyInt(1), Date(2024, 1, 15)>>,
     <<DateTime(2024, 1, 15, 0), DateTime(2024, 1, 15, 12)>>}

YSeriesPool == <<Ints(<<1, 2, 3>>), Ints(<<2, 3, 4>>), Ints(<<3, 1, 2>>), Ints(<<4, 4, 1>>)>>

YInputs ==
    {SubSeq(YSeriesPool, 1, n) : n \in 1..MaxSeries}
        \cup {<<Ints(<<1, 1, 1>>)>>,
              <<<<>>>>,
              <<<<PyInt(1), Date(2024, 1, 15), PyInt(2)>>>>,
              <<<<DateTime(2024, 1, 15, 0), DateTime(2024, 1, 15, 12)>>>>,
              <<Ints(<<-100, -99, -99>>)>>}

NamePool == <<"predicted", "actual", "third", "fourth">>

\* y values that give float limits, date limits, and datetimes over months
YOtherInputs ==
    {<<Tenths(<<1, 5, 3>>)>>,
     <<<<Date(2024, 1, 15), Date(2024, 3, 20), Date(2024, 2, 20)>>>>,
     <<<<DateTime(2024, 1, 15, 0), DateTime(2024, 3, 20, 12), DateTime(2024, 6, 20, 0)>>>>}

ChartArgsOf(x, y, h, xt) ==
    [x_values |-> x, y_values |-> y, has_names |-> h,
     y_names |-> IF h THEN SubSeq(NamePool, 1, Len(y)) ELSE <<>>,
     x_max_ticks |-> xt, y_max_ticks |-> default_max_ticks]

\* two series given one and the same name
RepeatedNameArgs ==
    [ChartArgsOf(Ints(<<0, 1, 2>>), <<YSeriesPool[1], YSeriesPool[2]>>, TRUE, default_max_ticks)
        EXCEPT !.y_names = <<NamePool[1], NamePool[1]>>]

ChartArgs ==
    {ChartArgsOf(x, y, h, default_max_ticks) : x \in XInputs, y \in YInputs, h \in BOOLEAN}
        \cup {ChartArgsOf(x, <<YSeriesPool[1]>>, TRUE, 1) : x \in XInputs}
        \cup {ChartArgsOf(Ints(<<0, 1, 2>>), y, TRUE, default_max_ticks) : y \in YOtherInputs}
        \cup {RepeatedNameArgs}

NoArgs ==
    [x_values |-> <<>>, y_values |-> <<>>, has_names |-> FALSE, y_names |-> <<>>,
     x_max_ticks |-> default_max_ticks, y_max_ticks |-> default_max_ticks]

CustomPool ==
    {Circle(PyInt(520), PyInt(60), PyInt(4),
            Own(<<<<"fill", "#FFFFFF">>, <<"stroke", "#DB7D33">>>>)),
     Text(PyInt(100), PyInt(525), "2024", Own(XAxis_default_tick_text_styles))}

StyleKeys == {"stroke"}
StyleValues == {"#DB7D33"}
NewStyles == {<<<<"stroke", "#2D2D2D">>, <<"stroke-width", "3">>>>}

NoText == <<>>

(***************************************************************************)
(* The chart model: construction, then calls on the chart.                 *)
(***************************************************************************)
Init ==
    /\ values = <<>>
    /\ max_ticks = 1
    /\ result = Pending
    /\ pc = "start"
    /\ args = NoArgs
    /\ chart = None
    /\ err = "none"
    /\ out = NoText
    /\ calls = 0

\* SimpleLineChart(x_values, y_values, y_names, x_max_ticks): up to the y axis
NewChart ==
    /\ pc = "start"
    /\ \E a \in ChartArgs : \E y \in {SimpleLineChart_y_axis(a)} :
        /\ args' = a
        /\ chart' = [Chart_init(default_height, default_width) EXCEPT !.y_axis = y.obj]
        /\ err' = y.err
        /\ pc' = IF y.err = "none" THEN "x_axis" ELSE "failed"
    /\ UNCHANGED <<out, calls>>
    /\ UNCHANGED limVars

InitXAxis ==
    /\ pc = "x_axis"
    /\ \E x \in {SimpleLineChart_x_axis(args)} :
        /\ chart' = [chart EXCEPT !.x_axis = x.obj]
        /\ err' = x.err
        /\ pc' = IF x.err = "none" THEN "series" ELSE "failed"
    /\ UNCHANGED <<args, out, calls>>
    /\ UNCHANGED limVars

InitSeries ==
    /\ pc = "series"
    /\ \E s \in {SimpleLineChart_series(chart, args)} :
        /\ chart' = IF s.err = "none" THEN [chart EXCEPT !.series = s.obj] ELSE chart
        /\ err' = s.err
        /\ pc' = IF s.err = "none" THEN "ready" ELSE "failed"
    /\ UNCHANGED <<args, out, calls>>
    /\ UNCHANGED limVars

\* a call that changes the chart to c; the text a render() returned is spent
Changed(c) ==
    /\ chart' = c
    /\ calls' = calls + 1
    /\ out' = NoText
    /\ UNCHANGED <<pc, args, err>>
    /\ UNCHANGED limVars

CanChange == pc = "ready" /\ calls < MaxCalls

AddYGrid == CanChange /\ \E k \in MinorChoices : Changed(add_y_grid(chart, k))

AddXGrid == CanChange /\ \E k \in MinorChoices : Changed(add_x_grid(chart, k))

\* add_grids(minor_x_ticks=k, minor_y_ticks=k)
AddGrids == CanChange /\ \E k \in MinorChoices : Changed(add_grids(chart, k, k))

AddLegend == CanChange /\ Changed(add_legend(chart))

AddCustomElement == CanChange /\ \E e \in CustomPool : Changed(add_custom_element(chart, e))

SetStyle ==
    /\ CanChange
    /\ \E i \in DOMAIN chart.series, key \in StyleKeys, value \in StyleValues :
        Changed(UpdateSeriesStyle(chart, i, key, value))

ReplaceStyles ==
    /\ CanChange
    /\ \E i \in DOMAIN chart.series, m \in NewStyles : Changed(ReplaceSeriesStyles(chart, i, m))

\* render() that uses up the custom elements it serialises
Render_consuming_custom_elements ==
    /\ pc = "ready"
    /\ out' = Chart_render(chart)
    /\ chart' = [chart EXCEPT !.custom_elements = <<>>]
    /\ UNCHANGED <<pc, args, err, calls>>
    /\ UNCHANGED limVars

Render ==
    /\ pc = "ready"
    /\ out' = Chart_render(chart)
    /\ UNCHANGED <<pc, args, chart, err, calls>>
    /\ UNCHANGED limVars

Next ==
    \/ NewChart
    \/ InitXAxis
    \/ InitSeries
    \/ AddYGrid
    \/ AddXGrid
    \/ AddGrids
    \/ AddLegend
    \/ AddCustomElement
    \/ SetStyle
    \/ ReplaceStyles
    \/ Render

Spec == Init /\ [][Next]_vars

(***************************************************************************)
(* Claims about the chart, checked under Spec.                             *)
(***************************************************************************)
\* the data the two axes are built from
YData == Flatten(args.y_values)
XData == args.x_values

\* the constructor has returned or raised
Ended == pc \in {"ready", "failed"}

\* the four kinds of invalid value collection
IsEmpty(vals) == vals = <<>>
FewDistinct(vals) == DistinctCount(vals) <= 1
MixedKinds(vals) == (\E v \in Range(vals) : IsNumeric(v)) /\ (\E v \in Range(vals) : IsDateLike(v))
NonPositiveSpan(vals) ==
    /\ DistinctCount(vals) >= 2
    /\ \/ \A v \in Range(vals) : v.t = "date"
       \/ \A v \in Range(vals) : v.t = "datetime"
    /\ DeltaDays(DateMax(vals), DateMin(vals)) <= 0

InvalidDomain(vals) ==
    IsEmpty(vals) \/ FewDistinct(vals) \/ MixedKinds(vals) \/ NonPositiveSpan(vals)

\* no tick of either axis has a position
NoTickPosition(c) ==
    /\ c.y_axis = None \/ (c.y_axis.tick_lines = <<>> /\ c.y_axis.tick_text = <<>>)
    /\ c.x_axis = None \/ (c.x_axis.tick_lines = <<>> /\ c.x_axis.tick_text = <<>>)

\* C4, as stated: an empty collection, one with fewer than two distinct
\* elements, one mixing numbers and dates, and a date collection with a
\* non-positive span each make construction fail with ValueError when the
\* axis given the collection computes its limits, before any tick position
\* and any series position is computed.
C4_NoPositionBeforeDomainError ==
    /\ (pc # "start" /\ InvalidDomain(YData)) =>
            /\ pc = "failed"
            /\ err = "ValueError"
            /\ NoTickPosition(chart)
            /\ chart.series = <<>>
    /\ (pc \notin {"start", "x_axis"} /\ chart.y_axis # None /\ InvalidDomain(XData)) =>
            /\ pc = "failed"
            /\ err = "ValueError"
            /\ NoTickPosition(chart)
            /\ chart.series = <<>>

\* C4, amended: an empty collection, one with fewer than two distinct
\* elements, one mixing numbers and dates, and a date collection with a
\* non-positive span each make construction fail with ValueError when the
\* axis given the collection computes its limits: that axis gets no tick, no
\* series position is computed and no chart is produced.  The y axis is built
\* first, the x axis second, the series last: when it is the x values that
\* are invalid, the y axis already has a tick line and a tick text at each of
\* its limits.
C4_DomainErrorAtAxisLimits ==
    /\ (pc # "start" /\ InvalidDomain(YData)) =>
            /\ pc = "failed"
            /\ err = "ValueError"
            /\ chart.y_axis = None
            /\ chart.x_axis = None
            /\ chart.series = <<>>
    /\ (pc \notin {"start", "x_axis"} /\ chart.y_axis # None /\ InvalidDomain(XData)) =>
            /\ pc = "failed"
            /\ err = "ValueError"
            /\ chart.x_axis = None
            /\ chart.series = <<>>
            /\ Len(chart.y_axis.tick_lines) = Len(chart.y_axis.limits)
            /\ Len(chart.y_axis.tick_text) = Len(chart.y_axis.limits)

\* the x values mix numbers and dates and fail after the y axis got its ticks
C4_Witness ==
    /\ pc = "failed"
    /\ err = "ValueError"
    /\ MixedKinds(XData)
    /\ chart.y_axis # None
    /\ Len(chart.y_axis.tick_lines) >= 2

\* how many fragments fill the template tag
CountTag(frags, tag) == Cardinality({i \in DOMAIN frags : frags[i].tag = tag})

\* valid x values and n >= 1 numeric y series as long as the x values, on which
\* get_limits gives both axes at least two limits (see C2)
ValidChartInput(a) ==
    /\ ValidNumeric(a.x_values) \/ ValidDates(a.x_values)
    /\ Len(a.y_values) >= 1
    /\ \A k \in DOMAIN a.y_values : Len(a.y_values[k]) = Len(a.x_values)
    /\ ValidNumeric(Flatten(a.y_values))
    /\ Len(get_limits(Flatten(a.y_values), a.y_max_ticks).limits) >= 2
    /\ Len(get_limits(a.x_values, a.x_max_ticks).limits) >= 2

\* C5: a SimpleLineChart built from valid x values and n >= 1 numeric y series,
\* with or without y_names, is constructed, and its rendering holds one path
\* fragment per series, n in all, and len(y_axis.limits) y-axis tick texts.
C5_OnePathPerSeries ==
    (Ended /\ ValidChartInput(args)) =>
        /\ pc = "ready"
        /\ CountTag(Chart_render(chart), "path") = Len(args.y_values)
        /\ CountTag(Axis_get_element_list(chart, chart.y_axis), "text") = Len(chart.y_axis.limits)

\* the fragments of a list of shapes, in the order of the list
Frags(c, shapes) == Flatten([k \in DOMAIN shapes |-> Shape_get_element_list(c, shapes[k])])

\* baseline, tick lines, tick labels, grid lines
AxisOrder(c, axis) ==
    Frags(c, <<axis.axis_line>>) \o Frags(c, axis.tick_lines) \o Frags(c, axis.tick_text)
        \o Frags(c, axis.grid_lines)

\* x axis, y axis, legend if present, series in insertion order, custom elements
ChartOrder(c) ==
    AxisOrder(c, c.x_axis) \o AxisOrder(c, c.y_axis)
        \o (IF c.legend = None THEN <<>> ELSE Frags(c, c.legend.lines) \o Frags(c, c.legend.texts))
        \o Frags(c, [k \in DOMAIN c.series |-> c.series[k].obj])
        \o Frags(c, c.custom_elements)

\* C6: after any sequence of add_grids, add_legend and add_custom_element calls
\* Chart.get_element_list gives the x axis, the y axis, the legend if present,
\* the series paths in insertion order, then the custom elements in insertion
\* order, and each axis gives its baseline, tick lines, tick labels, grid lines.
C6_ElementOrder ==
    pc = "ready" =>
        /\ Chart_get_element_list(chart) = ChartOrder(chart)
        /\ Axis_get_element_list(chart, chart.x_axis) = AxisOrder(chart, chart.x_axis)
        /\ Axis_get_element_list(chart, chart.y_axis) = AxisOrder(chart, chart.y_axis)

\* a chart with two series, a legend, a custom element or grid lines on both
\* axes, and so two calls behind it
C6_Witness ==
    /\ pc = "ready"
    /\ Len(chart.series) >= 2
    /\ chart.legend # None
    /\ chart.x_axis.grid_lines # <<>>
    /\ chart.y_axis.grid_lines # <<>>

\* C7: render() changes nothing of the chart (axes, legend, series, custom
\* elements): a step that returns a text leaves the chart as it was, the text
\* is the rendering of that chart, and a render() right after a render()
\* returns the same text.
C7_RenderIdempotent ==
    [][out' # NoText =>
        /\ chart' = chart
        /\ <<pc, args, err, calls>>' = <<pc, args, err, calls>>
        /\ out' = Chart_render(chart)
        /\ (out # NoText => out' = out)]_vars

\* a text was returned for a chart that calls have changed
C7_Witness ==
    /\ pc = "ready"
    /\ out # NoText
    /\ calls >= 1
    /\ chart.legend # None
    /\ chart.custom_elements # <<>>

\* C8: the legend has one swatch and one label per series and, when the chart
\* is rendered, each swatch's styles equal the styles of its series, whatever
\* the interleaving of add_legend with updates and replacements of
\* chart.series[name].styles.
C8_SwatchStylesMatchSeries ==
    (pc = "ready" /\ out # NoText /\ chart.legend # None) =>
        /\ Len(chart.legend.lines) = Len(chart.series)
        /\ Len(chart.legend.texts) = Len(chart.series)
        /\ \A k \in DOMAIN chart.series :
            /\ chart.legend.texts[k].content = chart.series[k].name
            /\ render_styles(chart, chart.legend.lines[k]) = render_styles(chart, chart.series[k].obj)

IsPrefix(old, new) == Len(old) <= Len(new) /\ SubSeq(new, 1, Len(old)) = old
NewLines(old, new) == SubSeq(new, Len(old) + 1, Len(new))

\* the coordinate across which a grid line or a tick is placed
Coord(shape, xy) == IF xy = "x" THEN shape.position.x ELSE shape.position.y

\* v lies between a and b and away from both
StrictlyBetween(v, a, b) ==
    /\ ~Close(v, a)
    /\ ~Close(v, b)
    /\ (PyLess(a, v) /\ PyLess(v, b)) \/ (PyLess(b, v) /\ PyLess(v, a))

\* lines holds one line at each non-first tick (up to rounding) and k lines
\* strictly between each such tick and the one before it, and nothing else
GridOf(lines, ticks, k, xy) ==
    /\ Len(lines) = (Len(ticks) - 1) * (k + 1)
    /\ \A i \in 2..Len(ticks) :
        /\ Cardinality({j \in DOMAIN lines : Close(Coord(lines[j], xy), Coord(ticks[i], xy))}) = 1
        /\ Cardinality({j \in DOMAIN lines :
               StrictlyBetween(Coord(lines[j], xy), Coord(ticks[i - 1], xy), Coord(ticks[i], xy))}) = k

\* from chart c to chart d one axis got the grid as new grid lines and the
\* other axis kept its grid lines; the ticks of both are as they were
GridCallEffect(c, d, ticks, k, xy) ==
    /\ \/ /\ IsPrefix(c.x_axis.grid_lines, d.x_axis.grid_lines)
          /\ GridOf(NewLines(c.x_axis.grid_lines, d.x_axis.grid_lines), ticks, k, xy)
          /\ d.y_axis.grid_lines = c.y_axis.grid_lines
       \/ /\ IsPrefix(c.y_axis.grid_lines, d.y_axis.grid_lines)
          /\ GridOf(NewLines(c.y_axis.grid_lines, d.y_axis.grid_lines), ticks, k, xy)
          /\ d.x_axis.grid_lines = c.x_axis.grid_lines
    /\ d.x_axis.tick_lines = c.x_axis.tick_lines
    /\ d.x_axis.tick_text = c.x_axis.tick_text
    /\ d.y_axis.tick_lines = c.y_axis.tick_lines
    /\ d.y_axis.tick_text = c.y_axis.tick_text

\* C9: one add_x_grid(minor_ticks=k) or add_y_grid(minor_ticks=k) call, with n
\* limits on the opposite axis, appends n-1 major grid lines, one at each
\* non-first tick of that axis, and k minor ones strictly between each and the
\* tick before it, all to the grid_lines of one and the same axis; the other
\* axis's grid_lines and the ticks of both axes are unchanged.
C9_GridCallAppendsToOneAxis ==
    [][/\ AddYGrid => \E k \in MinorChoices :
            GridCallEffect(chart, chart', chart.x_axis.tick_lines, k, "x")
       /\ AddXGrid => \E k \in MinorChoices :
            GridCallEffect(chart, chart', chart.y_axis.tick_lines, k, "y")]_vars

\* tick position p is the position q that get_positions computes, up to rounding
AtPosition(p, q) == ~IsExc(q) /\ Close(p, q)

\* one baseline, one tick line and one tick label per limit, each at the
\* position the axis's own get_positions gives for the limit
XAxisTicksAtLimits(axis) ==
    /\ axis.axis_line # None
    /\ Len(axis.tick_lines) = Len(axis.limits)
    /\ Len(axis.tick_text) = Len(axis.limits)
    /\ \A i \in DOMAIN axis.limits :
        /\ AtPosition(axis.tick_lines[i].position.x, XAxis_get_position(axis, axis.limits[i]))
        /\ AtPosition(axis.tick_text[i].position.x, XAxis_get_position(axis, axis.limits[i]))

YAxisTicksAtLimits(axis) ==
    /\ axis.axis_line # None
    /\ Len(axis.tick_lines) = Len(axis.limits)
    /\ Len(axis.tick_text) = Len(axis.limits)
    /\ \A i \in DOMAIN axis.limits :
        /\ AtPosition(axis.tick_lines[i].position.y, YAxis_get_position(axis, axis.limits[i]))
        /\ AtPosition(axis.tick_text[i].position.y, YAxis_get_position(axis, axis.limits[i]))

\* C10: constructing an XAxis or a YAxis builds one tick line and one tick
\* label per limit and a single baseline, the i-th tick at the position the
\* proportion formula gives for limits[i], for numeric and for date limits.
C10_TicksAtProportionOfLimits ==
    pc # "start" =>
        /\ chart.x_axis # None => XAxisTicksAtLimits(chart.x_axis)
        /\ chart.y_axis # None => YAxisTicksAtLimits(chart.y_axis)

=============================================================================
